---- MODULE Spec2Model ----
(***************************************************************************)
(* Model of the MinerMonitor telemetry server (Latnem/Files).              *)
(*                                                                         *)
(* The repository holds three variants of the same Express server:         *)
(*   "index_a"  src/server/index.js lines 1-441                            *)
(*   "index_b"  src/server/index.js lines 443-1221                         *)
(*   "part_000" src/unnamed/part_000                                       *)
(* They share the ingest handler and the two Maps and differ in the        *)
(* history cap, the default applied to metrics.ts (?? or ||), the sort key *)
(* of the listing and the length of the history slice it serves.           *)
(*                                                                         *)
(* Every value the handlers touch comes out of JSON.parse, so the model    *)
(* works on JavaScript values: tagged records, strings as sequences of     *)
(* one-character strings, objects as functions from keys to values.        *)
(***************************************************************************)
EXTENDS Integers, Sequences, FiniteSets, TLC

VARIABLES
  variant,       \* which of the three server variants is running
  API_KEY,       \* process.env.API_KEY || ""
  minersStore,   \* Map id -> {id,name,last_ts,metrics}, in insertion order
  historyStore,  \* Map id -> [{ts, ...metrics}], in insertion order
  clock,         \* what Date.now() returns
  response,      \* what the last request was answered with
  lastRequest,   \* the last request served (history variable)
  arrivals,      \* every (id, point) pushed onto a history array (history variable)
  consumed,      \* number of miners elements iterated over (bounds the run)
  shown          \* the badges the dashboard rendered last, one per listed miner

vars == <<variant, API_KEY, minersStore, historyStore, clock, response,
          lastRequest, arrivals, consumed, shown>>

-----------------------------------------------------------------------------
(* Bounds of the model.                                                    *)

\* Number of miners elements iterated over in one run of Spec, of SpecBatch
\* and of SpecTimestamp.
MaxEntries == 4
MaxBatchEntries == 2
MaxTimestampEntries == 1
\* The same in one run of SpecAuth and of SpecList.
MaxAuthEntries == 2
MaxListEntries == 3
\* The same in one run of SpecIdentity.
MaxIdentityEntries == 2
\* The same in one run of SpecOnline.
MaxOnlineEntries == 2
\* The same in one run of SpecOrder.
MaxOrderEntries == 3
\* The same in one run of SpecLater.
MaxLaterEntries == 2
\* Number of times the clock advances in one run.
MaxTicks == 1
\* Date.now() when the server starts (any positive epoch-ms value).
StartTime == 100
\* HISTORY_MAX_POINTS of index_a and part_000 (4000 in the source), scaled.
SmallHistoryMax == 2
\* HISTORY_MAX_POINTS of index_b (6000 in the source), scaled.
LargeHistoryMax == 3
\* Length of the served history slice (1200, 1600, 2500 in the source), scaled.
SliceOfPart == 1
SliceOfIndexA == 1
SliceOfIndexB == 2

-----------------------------------------------------------------------------
(* JavaScript values.                                                      *)

Undefined == [t |-> "undefined"]
Null == [t |-> "null"]
Bool(b) == [t |-> "boolean", b |-> b]
Num(n) == [t |-> "number", k |-> "finite", n |-> n]
NaN == [t |-> "number", k |-> "NaN", n |-> 0]
PosInfinity == [t |-> "number", k |-> "Infinity", n |-> 0]
NegInfinity == [t |-> "number", k |-> "-Infinity", n |-> 0]
Str(s) == [t |-> "string", s |-> s]
Obj(f) == [t |-> "object", o |-> f]
Arr(a) == [t |-> "array", a |-> a]
\* The outcome of an evaluation that throws a TypeError.
TypeError == [t |-> "TypeError"]

NoProps == [key \in {} |-> Undefined]
EmptyObject == Obj(NoProps)
EmptyArray == Arr(<<>>)
EmptyString == Str(<<>>)

\* Property names and string literals of the source.
K_id == <<"i", "d">>
K_name == <<"n", "a", "m", "e">>
K_metrics == <<"m", "e", "t", "r", "i", "c", "s">>
K_ts == <<"t", "s">>
K_last_ts == <<"l", "a", "s", "t", "_", "t", "s">>
K_miners == <<"m", "i", "n", "e", "r", "s">>
K_history == <<"h", "i", "s", "t", "o", "r", "y">>
K_ok == <<"o", "k">>
K_count == <<"c", "o", "u", "n", "t">>
K_error == <<"e", "r", "r", "o", "r">>
K_toString == <<"t", "o", "S", "t", "r", "i", "n", "g">>
S_Bearer == <<"B", "e", "a", "r", "e", "r", " ">>
S_unauthorized == <<"u", "n", "a", "u", "t", "h", "o", "r", "i", "z", "e", "d">>
S_server_error == <<"s", "e", "r", "v", "e", "r", "_", "e", "r", "r", "o", "r">>
S_Infinity == <<"I", "n", "f", "i", "n", "i", "t", "y">>

WhiteSpace == {" "}
Digits == <<"0", "1", "2", "3", "4", "5", "6", "7", "8", "9">>
DigitSet == {Digits[i] : i \in 1..Len(Digits)}
DigitValue(c) == (CHOOSE i \in 1..Len(Digits) : Digits[i] = c) - 1

\* ToBoolean: undefined, null, false, 0, NaN and "" are falsy.
Truthy(v) ==
  CASE v.t = "undefined" -> FALSE
    [] v.t = "null" -> FALSE
    [] v.t = "boolean" -> v.b
    [] v.t = "number" -> ~(v.k = "NaN" \/ (v.k = "finite" /\ v.n = 0))
    [] v.t = "string" -> v.s # <<>>
    [] OTHER -> TRUE

\* a || b
Or(a, b) == IF Truthy(a) THEN a ELSE b

\* a ?? b
Nullish(a, b) == IF a.t \in {"undefined", "null"} THEN b ELSE a

\* v?.key for a value that came out of JSON.parse: only objects carry the
\* properties the handlers read.
Get(v, key) == IF v.t = "object" /\ key \in DOMAIN v.o THEN v.o[key] ELSE Undefined

\* String.prototype.trim
RECURSIVE TrimStart(_)
TrimStart(s) ==
  IF s # <<>> /\ Head(s) \in WhiteSpace THEN TrimStart(Tail(s)) ELSE s

RECURSIVE TrimEnd(_)
TrimEnd(s) ==
  IF s # <<>> /\ s[Len(s)] \in WhiteSpace
  THEN TrimEnd(SubSeq(s, 1, Len(s) - 1))
  ELSE s

Trim(s) == TrimEnd(TrimStart(s))

\* Number::toString for the integers of the model.
RECURSIVE NatToString(_)
NatToString(n) ==
  IF n < 10 THEN <<Digits[n + 1]>>
  ELSE NatToString(n \div 10) \o <<Digits[(n % 10) + 1]>>

NumberToString(v) ==
  CASE v.k = "NaN" -> <<"N", "a", "N">>
    [] v.k = "Infinity" -> S_Infinity
    [] v.k = "-Infinity" -> <<"-">> \o S_Infinity
    [] OTHER -> IF v.n < 0 THEN <<"-">> \o NatToString(-v.n) ELSE NatToString(v.n)

\* String(v).  An object is converted by OrdinaryToPrimitive: toString, then
\* valueOf.  Object.prototype.valueOf returns the object itself, so a parsed
\* object converts through toString alone: "[object Object]", or a TypeError
\* when the object has an own (hence non-callable) toString property.
RECURSIVE String(_)
RECURSIVE JoinElements(_)
String(v) ==
  CASE v.t = "undefined" -> Str(<<"u", "n", "d", "e", "f", "i", "n", "e", "d">>)
    [] v.t = "null" -> Str(<<"n", "u", "l", "l">>)
    [] v.t = "boolean" ->
         IF v.b THEN Str(<<"t", "r", "u", "e">>) ELSE Str(<<"f", "a", "l", "s", "e">>)
    [] v.t = "number" -> Str(NumberToString(v))
    [] v.t = "string" -> v
    [] v.t = "array" -> JoinElements(v.a)
    [] v.t = "object" ->
         IF K_toString \in DOMAIN v.o THEN TypeError
         ELSE Str(<<"[", "o", "b", "j", "e", "c", "t", " ", "O", "b", "j", "e", "c", "t", "]">>)

\* Array.prototype.join(","): null and undefined elements give "".
JoinElements(a) ==
  IF a = <<>> THEN EmptyString
  ELSE LET first == IF Head(a).t \in {"undefined", "null"} THEN EmptyString
                    ELSE String(Head(a))
           rest == JoinElements(Tail(a))
       IN IF first.t = "TypeError" \/ rest.t = "TypeError" THEN TypeError
          ELSE IF Len(a) = 1 THEN first
          ELSE Str(first.s \o <<",">> \o rest.s)

RECURSIVE DigitsToNat(_)
DigitsToNat(s) ==
  IF s = <<>> THEN 0 ELSE 10 * DigitsToNat(SubSeq(s, 1, Len(s) - 1)) + DigitValue(s[Len(s)])

AllDigits(s) == s # <<>> /\ \A i \in 1..Len(s) : s[i] \in DigitSet

\* StringToNumber: whitespace is trimmed, "" is 0, a signed run of digits is
\* its value, Infinity is Infinity, anything else is NaN.  (The strings of
\* the model hold no fraction, exponent or radix prefix.)
StringToNumber(s) ==
  LET t == Trim(s)
      signed == t # <<>> /\ Head(t) \in {"+", "-"}
      body == IF signed THEN Tail(t) ELSE t
      negative == signed /\ Head(t) = "-"
  IN IF t = <<>> THEN Num(0)
     ELSE IF body = S_Infinity THEN (IF negative THEN NegInfinity ELSE PosInfinity)
     ELSE IF AllDigits(body)
          THEN Num(IF negative THEN 0 - DigitsToNat(body) ELSE DigitsToNat(body))
     ELSE NaN

\* Number(v)
Number(v) ==
  CASE v.t = "undefined" -> NaN
    [] v.t = "null" -> Num(0)
    [] v.t = "boolean" -> IF v.b THEN Num(1) ELSE Num(0)
    [] v.t = "number" -> v
    [] v.t = "string" -> StringToNumber(v.s)
    [] OTHER ->
         LET p == String(v)
         IN IF p.t = "TypeError" THEN TypeError ELSE StringToNumber(p.s)

\* Number.isFinite
IsFinite(v) == v.t = "number" /\ v.k = "finite"

\* Own enumerable properties copied by an object spread {...v}.
IndexProps(a) == [key \in {NatToString(i - 1) : i \in 1..Len(a)} |->
                    a[CHOOSE i \in 1..Len(a) : NatToString(i - 1) = key]]

SpreadProps(v) ==
  CASE v.t = "object" -> v.o
    [] v.t = "array" -> IndexProps(v.a)
    [] v.t = "string" -> IndexProps([i \in 1..Len(v.s) |-> Str(<<v.s[i]>>)])
    [] OTHER -> NoProps

\* { ...base, ...v }: the properties of v win over those of base.
Spread(base, v) == Obj(SpreadProps(v) @@ base)

\* String.prototype.startsWith
StartsWith(s, prefix) ==
  Len(s) >= Len(prefix) /\ SubSeq(s, 1, Len(prefix)) = prefix

\* Array.prototype.slice(-n), n > 0: the last n elements, all of them when
\* the array is shorter.
SliceLast(a, n) == IF Len(a) <= n THEN a ELSE SubSeq(a, Len(a) - n + 1, Len(a))

-----------------------------------------------------------------------------
(* Map: the entries in insertion order.                                    *)

NewMap == <<>>
MapHas(map, key) == \E i \in 1..Len(map) : map[i].key = key
MapGet(map, key) ==
  IF MapHas(map, key)
  THEN map[CHOOSE i \in 1..Len(map) : map[i].key = key].value
  ELSE Undefined

\* Faulty set: a list that is appended to, whether or not the key is there.
MapSetAppends(map, key, value) == Append(map, [key |-> key, value |-> value])

\* Map.prototype.set: an existing key keeps its position.
MapSet(map, key, value) ==
  IF MapHas(map, key)
  THEN [i \in 1..Len(map) |->
          IF map[i].key = key THEN [key |-> key, value |-> value] ELSE map[i]]
  ELSE Append(map, [key |-> key, value |-> value])

\* Array.from(map.values())
MapValues(map) == [i \in 1..Len(map) |-> map[i].value]
MapKeys(map) == {map[i].key : i \in 1..Len(map)}

-----------------------------------------------------------------------------
(* What the variants differ in.                                            *)

Variants == {"index_a", "index_b", "part_000"}

HISTORY_MAX_POINTS ==
  IF variant = "index_b" THEN LargeHistoryMax ELSE SmallHistoryMax

\* The argument of slice(-n) in the listing.
HistorySlice ==
  CASE variant = "index_a" -> SliceOfIndexA
    [] variant = "index_b" -> SliceOfIndexB
    [] OTHER -> SliceOfPart

\* m?.metrics?.ts ?? now  (index.js)   /   m?.metrics?.ts || now  (part_000)
TsOrNow(ts, now) ==
  IF variant = "part_000" THEN Or(ts, now) ELSE Nullish(ts, now)

-----------------------------------------------------------------------------
(* auth                                                                    *)

\* Faulty check: with no key configured every request is let through.
authOpenWhenUnset(authorization) ==
  LET h == Or(authorization, EmptyString)
      t == IF StartsWith(h.s, S_Bearer)
           THEN Str(SubSeq(h.s, Len(S_Bearer) + 1, Len(h.s)))
           ELSE EmptyString
  IN ~(Truthy(API_KEY) /\ t # API_KEY)

\* TRUE when auth calls next(), FALSE when it answers 401.
auth(authorization) ==
  LET h == Or(authorization, EmptyString)
      t == IF StartsWith(h.s, S_Bearer)
           THEN Str(SubSeq(h.s, Len(S_Bearer) + 1, Len(h.s)))
           ELSE EmptyString
  IN ~(~Truthy(API_KEY) \/ t # API_KEY)

Unauthorized == [status |-> 401, json |-> Obj(K_error :> Str(S_unauthorized))]
ServerError == [status |-> 500, json |-> Obj(K_error :> Str(S_server_error))]
IngestOk(count) == [status |-> 200, json |-> Obj(K_ok :> Bool(TRUE) @@ K_count :> Num(count))]

-----------------------------------------------------------------------------
(* POST /v1/ingest                                                         *)

\* Faulty clamp: the buffer is never trimmed.
clampHistoryNever(history, id) == history

\* Faulty clamp: slice(0, HISTORY_MAX_POINTS) keeps the oldest points.
clampHistoryKeepsOldest(history, id) ==
  LET arr == Or(MapGet(history, id), EmptyArray)
  IN IF Len(arr.a) > HISTORY_MAX_POINTS
     THEN MapSet(history, id, Arr(SubSeq(arr.a, 1, HISTORY_MAX_POINTS)))
     ELSE history

\* Faulty clamp: a buffer over the cap evicts the oldest point of every
\* buffer, as one shared budget would.
clampHistoryEvictsEverywhere(history, id) ==
  LET arr == Or(MapGet(history, id), EmptyArray)
  IN IF Len(arr.a) > HISTORY_MAX_POINTS
     THEN [i \in 1..Len(history) |->
             [key |-> history[i].key, value |-> Arr(Tail(history[i].value.a))]]
     ELSE history

clampHistory(history, id) ==
  LET arr == Or(MapGet(history, id), EmptyArray)
  IN IF Len(arr.a) > HISTORY_MAX_POINTS
     THEN MapSet(history, id, Arr(SliceLast(arr.a, HISTORY_MAX_POINTS)))
     ELSE history

\* { ts: safeTs, ...metrics }
HistoryPoint(safeTs, metrics) == Spread(K_ts :> safeTs, metrics)

\* The state a run of the handler works on: the two stores, the points it
\* pushed (with their ids) and whether an exception has left the try block.
Running(miners, history) ==
  [miners |-> miners, history |-> history, pushed |-> <<>>, thrown |-> FALSE]

Throw(st) == [st EXCEPT !.thrown = TRUE]

\* Faulty store: the metrics of the previous snapshot are merged into the new
\* one, { ...old.metrics, ...metrics }.
StoreEntryMerging(st, id, name, safeTs, metrics) ==
  LET old == Get(MapGet(st.miners, id), K_metrics)
      snapshot == Obj(K_id :> id @@ K_name :> name @@ K_last_ts :> safeTs
                      @@ K_metrics :> Spread(SpreadProps(old), metrics))
      point == HistoryPoint(safeTs, metrics)
      arr == Or(MapGet(st.history, id), EmptyArray)
      pushed == Arr(Append(arr.a, point))
  IN [miners |-> MapSet(st.miners, id, snapshot),
      history |-> clampHistory(MapSet(st.history, id, pushed), id),
      pushed |-> Append(st.pushed, [id |-> id, point |-> point]),
      thrown |-> FALSE]

\* minersStore.set(...) and the four statements on the history array.
StoreEntry(st, id, name, safeTs, metrics) ==
  LET snapshot == Obj(K_id :> id @@ K_name :> name @@ K_last_ts :> safeTs
                      @@ K_metrics :> metrics)
      point == HistoryPoint(safeTs, metrics)
      arr == Or(MapGet(st.history, id), EmptyArray)
      pushed == Arr(Append(arr.a, point))
  IN [miners |-> MapSet(st.miners, id, snapshot),
      history |-> clampHistory(MapSet(st.history, id, pushed), id),
      pushed |-> Append(st.pushed, [id |-> id, point |-> point]),
      thrown |-> FALSE]

\* Faulty guard: no entry is skipped.
SkipsNothing(id) == FALSE

\* if (!id) continue;
Skips(id) == ~Truthy(id)

\* Faulty fallbacks: none at all, and 0 in place of the clock.
SafeTsUnchecked(ts, now) == ts
SafeTsZero(ts, now) == IF IsFinite(ts) THEN ts ELSE Num(0)

\* Number.isFinite(ts) ? ts : now
SafeTs(ts, now) == IF IsFinite(ts) THEN ts ELSE now

\* The body of the for loop for one element m.
IngestEntry(st, m, now) ==
  LET idString == String(Or(Get(m, K_id), EmptyString))
  IN IF idString.t = "TypeError" THEN Throw(st)
     ELSE LET id == Str(Trim(idString.s))
          IN IF Skips(id) THEN st
             ELSE LET name == String(Or(Get(m, K_name), id))
                      ts == Number(TsOrNow(Get(Get(m, K_metrics), K_ts), now))
                  IN IF name.t = "TypeError" \/ ts.t = "TypeError" THEN Throw(st)
                     ELSE StoreEntry(st, id, name, SafeTs(ts, now),
                                     Or(Get(m, K_metrics), EmptyObject))

\* Faulty loop: the elements are visited from the last to the first.
RECURSIVE ForOfReversed(_, _, _)
ForOfReversed(st, elements, now) ==
  IF elements = <<>> \/ st.thrown THEN st
  ELSE ForOfReversed(IngestEntry(st, elements[Len(elements)], now),
                     SubSeq(elements, 1, Len(elements) - 1), now)

\* for (const m of miners): the loop ends at the first exception.
RECURSIVE ForOf(_, _, _)
ForOf(st, elements, now) ==
  IF elements = <<>> \/ st.thrown THEN st
  ELSE ForOf(IngestEntry(st, Head(elements), now), Tail(elements), now)

\* What for...of iterates over: the elements of an array, the characters of
\* a string; any other value is not iterable.
Iterable(v) == v.t \in {"array", "string"}
Elements(v) == IF v.t = "array" THEN v.a ELSE [i \in 1..Len(v.s) |-> Str(<<v.s[i]>>)]
Length(v) == IF v.t = "array" THEN Len(v.a) ELSE Len(v.s)

\* Faulty answer: count is the number of entries stored, not submitted.
IngestHandlerCountsStored(miners0, history0, body, now) ==
  LET miners == Or(Get(body, K_miners), EmptyArray)
      st0 == Running(miners0, history0)
      st == IF Iterable(miners) THEN ForOf(st0, Elements(miners), now) ELSE Throw(st0)
  IN [miners |-> st.miners, history |-> st.history, pushed |-> st.pushed,
      response |-> IF st.thrown THEN ServerError ELSE IngestOk(Len(st.pushed))]

\* The handler from try to the response: the stores it leaves and its answer.
IngestHandler(miners0, history0, body, now) ==
  LET miners == Or(Get(body, K_miners), EmptyArray)
      st0 == Running(miners0, history0)
      st == IF Iterable(miners) THEN ForOf(st0, Elements(miners), now) ELSE Throw(st0)
  IN [miners |-> st.miners, history |-> st.history, pushed |-> st.pushed,
      response |-> IF st.thrown THEN ServerError ELSE IngestOk(Length(miners))]

-----------------------------------------------------------------------------
(* GET /v1/miners                                                          *)

\* String.prototype.localeCompare under the root collation: strings compare
\* by the primary weights of their characters (white space, punctuation,
\* digits, letters; case ignored), and strings equal there compare by case,
\* lower case first.
Symbols == <<" ", "_", "-", ",", "[", "]", "+">>
LowerCase == <<"a", "b", "c", "d", "e", "f", "g", "h", "i", "j", "k", "l", "m",
               "n", "o", "p", "q", "r", "s", "t", "u", "v", "w", "x", "y", "z">>
UpperCase == <<"A", "B", "C", "D", "E", "F", "G", "H", "I", "J", "K", "L", "M",
               "N", "O", "P", "Q", "R", "S", "T", "U", "V", "W", "X", "Y", "Z">>
IndexIn(table, c) == CHOOSE i \in 1..Len(table) : table[i] = c
IsIn(table, c) == \E i \in 1..Len(table) : table[i] = c

PrimaryWeight(c) ==
  CASE IsIn(Symbols, c) -> IndexIn(Symbols, c)
    [] IsIn(Digits, c) -> Len(Symbols) + IndexIn(Digits, c)
    [] IsIn(LowerCase, c) -> Len(Symbols) + Len(Digits) + IndexIn(LowerCase, c)
    [] IsIn(UpperCase, c) -> Len(Symbols) + Len(Digits) + IndexIn(UpperCase, c)

CaseWeight(c) == IF IsIn(UpperCase, c) THEN 1 ELSE 0

\* Lexicographic comparison of two sequences of weights: -1, 0 or 1.
RECURSIVE CompareWeights(_, _)
CompareWeights(u, v) ==
  CASE u = <<>> /\ v = <<>> -> 0
    [] u = <<>> /\ v # <<>> -> -1
    [] u # <<>> /\ v = <<>> -> 1
    [] OTHER -> IF Head(u) < Head(v) THEN -1
                ELSE IF Head(u) > Head(v) THEN 1
                ELSE CompareWeights(Tail(u), Tail(v))

localeCompare(a, b) ==
  LET primary == CompareWeights([i \in 1..Len(a) |-> PrimaryWeight(a[i])],
                                [i \in 1..Len(b) |-> PrimaryWeight(b[i])])
  IN IF primary # 0 THEN primary
     ELSE CompareWeights([i \in 1..Len(a) |-> CaseWeight(a[i])],
                         [i \in 1..Len(b) |-> CaseWeight(b[i])])

\* The comparator handed to sort.
\*   index_a, part_000:  a.id.localeCompare(b.id)
\*   index_b:            (a.name || a.id).localeCompare(b.name || b.id)
SortKey(m) ==
  IF variant = "index_b" THEN Or(Get(m, K_name), Get(m, K_id)) ELSE Get(m, K_id)

Comparator(a, b) == localeCompare(SortKey(a).s, SortKey(b).s)

\* Array.prototype.sort is stable: elements the comparator calls equal keep
\* their order.
RECURSIVE InsertSorted(_, _)
InsertSorted(sorted, x) ==
  IF sorted = <<>> THEN <<x>>
  ELSE IF Comparator(Head(sorted), x) <= 0
       THEN <<Head(sorted)>> \o InsertSorted(Tail(sorted), x)
       ELSE <<x>> \o sorted

RECURSIVE Sort(_)
Sort(a) ==
  IF a = <<>> THEN <<>>
  ELSE InsertSorted(Sort(SubSeq(a, 1, Len(a) - 1)), a[Len(a)])

\* Faulty read: slice(0, n) serves the oldest points.
ServedHistoryOldest(history, id) ==
  LET arr == Or(MapGet(history, id), EmptyArray)
  IN [history |-> history,
      served |-> Arr(SubSeq(arr.a, 1, IF Len(arr.a) < HistorySlice THEN Len(arr.a)
                                      ELSE HistorySlice))]

\* Faulty read: splice(-n) cuts the served points out of the stored array.
ServedHistorySplicing(history, id) ==
  LET arr == Or(MapGet(history, id), EmptyArray)
      served == SliceLast(arr.a, HistorySlice)
  IN [history |-> IF MapHas(history, id)
                  THEN MapSet(history, id,
                              Arr(SubSeq(arr.a, 1, Len(arr.a) - Len(served))))
                  ELSE history,
      served |-> Arr(served)]

\* (historyStore.get(m.id) || []).slice(-n): slice returns a copy, the stored
\* array stays as it is.
ServedHistory(history, id) ==
  LET arr == Or(MapGet(history, id), EmptyArray)
  IN [history |-> history, served |-> Arr(SliceLast(arr.a, HistorySlice))]

\* Faulty callback: Object.assign(m, { history }) writes into the stored
\* snapshot and returns it.
ListedEntryAssigning(m, served) ==
  LET listed == Spread(m.o, Obj(K_history :> served))
  IN [stored |-> listed, listed |-> listed]

\* ({ ...m, history }): a fresh object, the stored snapshot m stays as it is.
ListedEntry(m, served) ==
  [stored |-> m, listed |-> Spread(m.o, Obj(K_history :> served))]

\* .map(...) over the sorted snapshots: the entries listed so far, and the
\* two stores as the callbacks leave them.
RECURSIVE MapSorted(_, _)
MapSorted(st, sorted) ==
  IF sorted = <<>> THEN st
  ELSE LET m == Head(sorted)
           read == ServedHistory(st.history, Get(m, K_id))
           entry == ListedEntry(m, read.served)
       IN MapSorted([miners |-> MapSet(st.miners, Get(m, K_id), entry.stored),
                     history |-> read.history,
                     listed |-> Append(st.listed, entry.listed)],
                    Tail(sorted))

\* The handler: the stores it leaves and the object handed to res.json.
\* Array.from copies the values of the Map, so sort orders the copy.
ListRun(miners0, history0) ==
  LET st == MapSorted([miners |-> miners0, history |-> history0, listed |-> <<>>],
                      Sort(MapValues(miners0)))
  IN [miners |-> st.miners, history |-> st.history,
      response |-> [status |-> 200, json |-> Obj(K_miners :> Arr(st.listed))]]

ListHandler(miners0, history0) == ListRun(miners0, history0).response

-----------------------------------------------------------------------------
(* The dashboard served at /, as far as it classifies the listed miners.   *)

\* Faulty test: a miner last seen exactly a minute ago still counts as online.
onlineInclusive(lastTs, now) == (now.n - Or(lastTs, Num(0)).n) <= 60000

\* function online(lastTs){ return (Date.now() - (lastTs||0)) < 60000; }
online(lastTs, now) == (now.n - Or(lastTs, Num(0)).n) < 60000

\* renderCards: one badge per miner of state.miners, "badge online" or
\* "badge stale" by online(m.last_ts).
renderCards(miners, now) ==
  [i \in 1..Len(miners) |->
     [id |-> Get(miners[i], K_id),
      last_ts |-> Get(miners[i], K_last_ts),
      at |-> now,
      isOn |-> online(Get(miners[i], K_last_ts), now)]]

-----------------------------------------------------------------------------
(* Requests.                                                               *)

Prop(key, v) == IF v = Undefined THEN NoProps ELSE key :> v

\* One element of miners; Undefined stands for a property left out.
Entry(id, name, metrics) ==
  Obj(Prop(K_id, id) @@ Prop(K_name, name) @@ Prop(K_metrics, metrics))

Metrics(ts, h, g) == Obj(Prop(K_ts, ts) @@ Prop(<<"h">>, h) @@ Prop(<<"g">>, g))

\* An object String() and Number() throw on.
Unconvertible == Obj(K_toString :> Num(1))

Id_A == Str(<<"A">>)
Id_B == Str(<<"B">>)
Name_N == Str(<<"N">>)

\* Well-formed entries of two devices: long runs fill the history buffers.
DeviceEntries ==
  { Entry(Id_A, Undefined, Metrics(Num(5), Num(1), Undefined)),
    Entry(Str(<<" ", "A", " ">>), Name_N, Metrics(Undefined, Undefined, Num(2))),
    Entry(Id_B, Undefined, Metrics(Num(7), Undefined, Undefined)) }

\* Entries the loop skips or throws on, among entries it stores.
BatchEntries ==
  { Entry(Id_A, Undefined, Metrics(Num(5), Num(1), Undefined)),
    Entry(Id_B, Name_N, Metrics(Undefined, Undefined, Num(2))),
    Entry(EmptyString, Name_N, Metrics(Num(5), Undefined, Undefined)),
    Entry(Str(<<" ">>), Undefined, Undefined),
    Entry(Undefined, Undefined, Metrics(Undefined, Num(1), Undefined)),
    Entry(Unconvertible, Undefined, Undefined),
    Entry(Id_A, Undefined, Metrics(Unconvertible, Undefined, Undefined)),
    Null }

\* One device, every kind of metrics.ts.
TimestampEntries ==
  { Entry(Id_A, Undefined, Metrics(ts, Num(1), Undefined)) :
      ts \in {Undefined, Null, Num(5), Num(0), Num(0 - 3), PosInfinity,
              EmptyString, Str(<<" ">>), Str(<<"a", "b", "c">>), Str(<<"1", "2">>),
              Str(S_Infinity), Bool(FALSE), EmptyArray} }
    \cup {Entry(Id_A, Name_N, Undefined), Entry(Id_A, Undefined, Str(<<"h">>))}

\* req.body: a miners array of at most n entries, or a body without one.
Bodies(entries, n) ==
  {Obj(K_miners :> Arr(batch)) : batch \in UNION {[1..k -> entries] : k \in 0..n}}
    \cup {Undefined, EmptyObject, Obj(K_miners :> Num(5))}
    \cup (IF n >= 2 THEN {Obj(K_miners :> Str(<<"A", "B">>))} ELSE {})

\* req.headers.authorization
Authorizations == {Undefined, Str(S_Bearer \o <<"k">>), Str(S_Bearer \o <<"x">>)}

\* Every kind of header: none, the key, a wrong key, an empty token, another
\* scheme, the scheme in lower case, the key without a scheme.
S_Basic == <<"B", "a", "s", "i", "c", " ">>
S_bearer == <<"b", "e", "a", "r", "e", "r", " ">>
Credentials ==
  Authorizations \cup {Str(S_Bearer), Str(S_Basic \o <<"k">>),
                       Str(S_bearer \o <<"k">>), Str(<<"k">>)}

\* Entries of two devices, sent under every kind of header.
AuthEntries ==
  { Entry(Id_A, Undefined, Metrics(Num(5), Num(1), Undefined)),
    Entry(Id_B, Name_N, Metrics(Undefined, Undefined, Num(2))) }

\* Devices whose names are equal (A and C), differ only in case (B from A
\* and C) or sort against their ids (A as z, B as N).
Id_C == Str(<<"C">>)
Name_n == Str(<<"n">>)
Name_z == Str(<<"z">>)
ListEntries ==
  { Entry(Id_A, Name_n, Undefined),
    Entry(Id_A, Name_z, Undefined),
    Entry(Id_B, Name_N, Undefined),
    Entry(Id_C, Name_n, Undefined) }

\* Ids and names that are not strings, or not much of a string.
IdentityEntries ==
  { Entry(Num(0), Undefined, Metrics(Undefined, Num(1), Undefined)),
    Entry(Bool(FALSE), Undefined, Undefined),
    Entry(Num(7), Undefined, Undefined),
    Entry(EmptyArray, Name_N, Undefined),
    Entry(Str(<<" ", "B", " ">>), Undefined, Undefined),
    Entry(Id_A, Name_N, Undefined),
    Entry(Id_A, EmptyString, Undefined),
    Entry(Id_A, Num(0), Undefined),
    Entry(Id_A, Num(5), Undefined),
    Entry(Id_A, Str(<<" ">>), Undefined),
    Entry(Id_A, EmptyArray, Undefined) }

\* Two devices last seen just under a minute and a minute before the server
\* started, or at the time of the request.
OnlineEntries ==
  { Entry(Id_A, Undefined, Metrics(Num(StartTime - 59999), Undefined, Undefined)),
    Entry(Id_B, Undefined, Metrics(Num(StartTime - 60000), Undefined, Undefined)),
    Entry(Id_B, Undefined, Undefined) }

\* Two different entries of one device and an entry that is skipped.
OrderEntries ==
  { Entry(Id_A, Undefined, Metrics(Num(5), Num(1), Undefined)),
    Entry(Str(<<" ", "A", " ">>), Name_N, Metrics(Undefined, Undefined, Num(2))),
    Entry(EmptyString, Name_N, Metrics(Num(5), Undefined, Undefined)) }

\* One device reporting timestamps smaller than the ones it reported before.
LaterEntries ==
  { Entry(Id_A, Undefined, Metrics(Num(5), Num(1), Undefined)),
    Entry(Id_A, Undefined, Metrics(Num(3), Undefined, Undefined)),
    Entry(Id_A, Undefined, Metrics(Num(0), Undefined, Undefined)),
    Entry(Id_A, Name_N, Metrics(Undefined, Undefined, Num(2))) }

\* process.env.API_KEY
Environment == {Undefined, Str(<<"k">>)}

-----------------------------------------------------------------------------
(* The server.                                                             *)

Init ==
  /\ variant \in Variants
  /\ \E env \in Environment : API_KEY = Or(env, EmptyString)
  /\ minersStore = NewMap
  /\ historyStore = NewMap
  /\ clock = StartTime
  /\ response = [status |-> 0, json |-> Undefined]
  /\ lastRequest = [kind |-> "none", authorization |-> Undefined,
                    body |-> Undefined, now |-> Num(StartTime)]
  /\ arrivals = <<>>
  /\ consumed = 0
  /\ shown = <<>>

\* Time passes between requests.
Tick ==
  /\ clock < StartTime + MaxTicks
  /\ clock' = clock + 1
  /\ UNCHANGED <<variant, API_KEY, minersStore, historyStore, response,
                 lastRequest, arrivals, consumed, shown>>

\* POST /v1/ingest answered by auth.
AuthReject(authorization) ==
  /\ ~auth(authorization)
  /\ response' = Unauthorized
  /\ lastRequest' = [kind |-> "rejected", authorization |-> authorization,
                     body |-> Undefined, now |-> Num(clock)]
  /\ UNCHANGED <<variant, API_KEY, minersStore, historyStore, clock, arrivals,
                 consumed, shown>>

\* POST /v1/ingest passed on by auth to the handler.
PostIngest(authorization, body) ==
  /\ auth(authorization)
  /\ \E done \in {IngestHandler(minersStore, historyStore, body, Num(clock))} :
     LET now == Num(clock)
         miners == Or(Get(body, K_miners), EmptyArray)
     IN /\ minersStore' = done.miners
        /\ historyStore' = done.history
        /\ response' = done.response
        /\ arrivals' = arrivals \o done.pushed
        /\ consumed' = consumed + (IF Iterable(miners) THEN Length(miners) ELSE 0)
        /\ lastRequest' = [kind |-> "ingest", authorization |-> authorization,
                           body |-> body, now |-> now]
  /\ UNCHANGED <<variant, API_KEY, clock, shown>>

\* GET /v1/miners
GetMiners ==
  /\ \E done \in {ListRun(minersStore, historyStore)} :
       /\ minersStore' = done.miners
       /\ historyStore' = done.history
       /\ response' = done.response
  /\ lastRequest' = [kind |-> "list", authorization |-> Undefined,
                     body |-> Undefined, now |-> Num(clock)]
  /\ UNCHANGED <<variant, API_KEY, clock, arrivals, consumed, shown>>

\* refresh() of the dashboard once fetch("/v1/miners") was answered:
\* state.miners = j.miners || [], then renderCards().  part_000 serves a page
\* without this script.
Refresh ==
  /\ variant # "part_000"
  /\ lastRequest.kind = "list"
  /\ shown' = renderCards(Or(Get(response.json, K_miners), EmptyArray).a, Num(clock))
  /\ UNCHANGED <<variant, API_KEY, minersStore, historyStore, clock, response,
                 lastRequest, arrivals, consumed>>

\* A run in which the miners arrays hold entries of the given set, at most
\* budget of them in all.
NextWith(authorizations, entries, budget) ==
  \/ Tick
  \/ \E authorization \in authorizations : AuthReject(authorization)
  \/ \E authorization \in authorizations, body \in Bodies(entries, budget - consumed) :
       PostIngest(authorization, body)
  \/ GetMiners

NextOver(entries, budget) == NextWith(Authorizations, entries, budget)

\* Long runs of well-formed entries.
Next == NextOver(DeviceEntries, MaxEntries)
Spec == Init /\ [][Next]_vars

\* Batches with entries that are skipped or throw.
NextBatch == NextOver(BatchEntries, MaxBatchEntries)
SpecBatch == Init /\ [][NextBatch]_vars

\* Every kind of timestamp.
NextTimestamp == NextOver(TimestampEntries, MaxTimestampEntries)
SpecTimestamp == Init /\ [][NextTimestamp]_vars

\* Every kind of Authorization header.
NextAuth == NextWith(Credentials, AuthEntries, MaxAuthEntries)
SpecAuth == Init /\ [][NextAuth]_vars

\* Devices listed by name.
NextList == NextOver(ListEntries, MaxListEntries)
SpecList == Init /\ [][NextList]_vars

\* Ids and names of every type.
NextIdentity == NextOver(IdentityEntries, MaxIdentityEntries)
SpecIdentity == Init /\ [][NextIdentity]_vars

\* The dashboard polling the list while devices grow stale.
NextOnline == NextOver(OnlineEntries, MaxOnlineEntries) \/ Refresh
SpecOnline == Init /\ [][NextOnline]_vars

\* Several entries of one device, in one batch and in successive ones.
NextOrder == NextOver(OrderEntries, MaxOrderEntries)
SpecOrder == Init /\ [][NextOrder]_vars

\* Entries arriving with timestamps out of order.
NextLater == NextOver(LaterEntries, MaxLaterEntries)
SpecLater == Init /\ [][NextLater]_vars

-----------------------------------------------------------------------------
(* Properties.                                                             *)

Min(a, b) == IF a < b THEN a ELSE b

\* The ids a history point was ever pushed for, and the points pushed for
\* one id, in the order of the pushes.
ArrivedIds == {arrivals[i].id : i \in 1..Len(arrivals)}
ArrivalsOf(id) ==
  LET mine == SelectSeq(arrivals, LAMBDA r : r.id = id)
  IN [i \in 1..Len(mine) |-> mine[i].point]

\* The history array stored for id ([] when there is none).
HistoryOf(id) == Or(MapGet(historyStore, id), EmptyArray).a

\* The miners array of the last request, when it was one.
LastBatch ==
  LET miners == Get(lastRequest.body, K_miners)
  IN IF miners.t = "array" THEN miners.a ELSE <<>>

IngestAnswered(status) == lastRequest.kind = "ingest" /\ response.status = status

\* C1: once an ingest has finished, no history buffer holds more than
\* HISTORY_MAX_POINTS points.
C1_HistoryBounded ==
  \A i \in 1..Len(historyStore) :
    Len(historyStore[i].value.a) <= HISTORY_MAX_POINTS

\* A buffer is full after more than HISTORY_MAX_POINTS points were pushed for
\* its device.
C1_Witness ==
  \E i \in 1..Len(historyStore) :
    /\ Len(historyStore[i].value.a) = HISTORY_MAX_POINTS
    /\ Len(ArrivalsOf(historyStore[i].key)) > HISTORY_MAX_POINTS

\* C2: the buffer of a device is the last min(n, HISTORY_MAX_POINTS) of the n
\* points pushed for it, in the order they were pushed, each unaltered.
C2_HistoryIsLatestArrivals ==
  /\ MapKeys(historyStore) = ArrivedIds
  /\ \A id \in ArrivedIds :
       LET all == ArrivalsOf(id)
           kept == HistoryOf(id)
           k == Min(Len(all), HISTORY_MAX_POINTS)
       IN /\ Len(kept) = k
          /\ \A j \in 1..k : kept[j] = all[Len(all) - k + j]

\* Points were evicted from a buffer whose retained points differ, so that
\* their order shows.
C2_Witness ==
  \E id \in ArrivedIds :
    /\ Len(ArrivalsOf(id)) > HISTORY_MAX_POINTS
    /\ HistoryOf(id)[1] # HistoryOf(id)[2]
    /\ ArrivalsOf(id)[1] # HistoryOf(id)[1]

\* C3: the listing holds one entry for each id a history point was ever
\* pushed for, and no other entry.
ListedIds ==
  LET listed == Get(response.json, K_miners).a
  IN [i \in 1..Len(listed) |-> Get(listed[i], K_id)]

C3_ListsEachIdOnce ==
  lastRequest.kind = "list" =>
    /\ {ListedIds[i] : i \in 1..Len(ListedIds)} = ArrivedIds
    /\ Len(ListedIds) = Cardinality(ArrivedIds)

\* Two devices are listed after one of them was ingested more than once.
C3_Witness ==
  /\ lastRequest.kind = "list"
  /\ Len(ListedIds) = 2
  /\ Len(arrivals) > 2

\* The last element of the last miners array, its metrics.ts and the
\* snapshot stored under its trimmed id.
LastEntry == LastBatch[Len(LastBatch)]
LastEntryTs == Get(Get(LastEntry, K_metrics), K_ts)
LastEntrySnapshot == MapGet(minersStore, Str(Trim(Get(LastEntry, K_id).s)))
LastEntryStored == IngestAnswered(200) /\ LastBatch # <<>>

\* C4: right after a well-formed entry is ingested (those of DeviceEntries:
\* a string id, metrics.ts a non-zero finite number or left out), the
\* snapshot of its id is {id, name, last_ts, metrics} with the entry's name
\* (its id when it has none), its timestamp (the clock when it has none) and
\* its metrics object, and nothing of the snapshot it replaces.
C4_SnapshotIsLastEntry ==
  LastEntryStored =>
    LET id == Str(Trim(Get(LastEntry, K_id).s))
        name == Get(LastEntry, K_name)
    IN LastEntrySnapshot =
         Obj(K_id :> id
             @@ K_name :> (IF name = Undefined THEN id ELSE name)
             @@ K_last_ts :> (IF LastEntryTs = Undefined THEN lastRequest.now
                              ELSE LastEntryTs)
             @@ K_metrics :> Get(LastEntry, K_metrics))

\* The entry replaced a snapshot of the same id whose metrics had a key h the
\* entry does not have.
C4_Witness ==
  /\ LastEntryStored
  /\ <<"h">> \notin DOMAIN Get(LastEntry, K_metrics).o
  /\ \E i \in 1..(Len(arrivals) - 1) :
       /\ arrivals[i].id = Get(LastEntrySnapshot, K_id)
       /\ <<"h">> \in DOMAIN arrivals[i].point.o

\* An entry whose id is missing, or a string that is empty once trimmed.
HasNoId(m) ==
  LET id == Get(m, K_id)
  IN id.t = "undefined" \/ (id.t = "string" /\ Trim(id.s) = <<>>)

WithoutIdless(batch) == SelectSeq(batch, LAMBDA m : ~HasNoId(m))

\* A step in which the ingest handler ran.
IngestStep ==
  /\ lastRequest'.kind = "ingest"
  /\ (lastRequest' # lastRequest \/ consumed' # consumed)

\* C5: a request leaves the stores, and succeeds or fails, exactly as the
\* same request without its entries that have no id would; nothing is
\* stored under the empty id.
C5_IdlessEntriesAreSkipped ==
  [][(IngestStep /\ Get(lastRequest'.body, K_miners).t = "array") =>
       LET batch == Get(lastRequest'.body, K_miners).a
           alone == IngestHandler(minersStore, historyStore,
                                  Obj(K_miners :> Arr(WithoutIdless(batch))),
                                  lastRequest'.now)
       IN /\ minersStore' = alone.miners
          /\ historyStore' = alone.history
          /\ response'.status = alone.response.status
          /\ EmptyString \notin MapKeys(minersStore') \cup MapKeys(historyStore')]_vars

\* A batch of an entry without id followed by one that was stored.
C5_Witness ==
  /\ IngestAnswered(200)
  /\ Len(LastBatch) = 2
  /\ HasNoId(LastBatch[1])
  /\ ~HasNoId(LastBatch[2])
  /\ arrivals # <<>>
  /\ arrivals[Len(arrivals)].id = Str(Trim(Get(LastBatch[2], K_id).s))

\* C6: the ts of every history point is a finite number, and the ts of the
\* last point of a device is the last_ts of its snapshot (both were written
\* by the same entry).
C6_PointTsIsResolvedTs ==
  \A i \in 1..Len(historyStore) :
    LET points == historyStore[i].value.a
        snapshot == MapGet(minersStore, historyStore[i].key)
    IN /\ \A j \in 1..Len(points) : IsFinite(Get(points[j], K_ts))
       /\ Get(points[Len(points)], K_ts) = Get(snapshot, K_last_ts)

\* C7: the last_ts of every snapshot is a finite number.
C7_LastTsFinite ==
  \A i \in 1..Len(minersStore) : IsFinite(Get(minersStore[i].value, K_last_ts))

\* An entry whose metrics.ts is Infinity was stored.
C7_Witness ==
  /\ LastEntryStored
  /\ LastEntryTs = PosInfinity
  /\ LastEntrySnapshot # Undefined

\* C8: when metrics.ts is there (neither undefined nor null) and Number()
\* makes a finite number of it, that number is the last_ts stored.
C8_FiniteTsIsKept ==
  (LastEntryStored /\ LastEntryTs.t \notin {"undefined", "null"}
     /\ IsFinite(Number(LastEntryTs)))
    => Get(LastEntrySnapshot, K_last_ts) = Number(LastEntryTs)

\* C9 as stated: metrics.ts left out, or a string that is empty or not a
\* number, is stored as the clock of the request, never 0.
C9_NonNumericTsIsClock ==
  (LastEntryStored
     /\ (LastEntryTs = Undefined
           \/ (LastEntryTs.t = "string"
                 /\ (LastEntryTs.s = <<>> \/ Number(LastEntryTs) = NaN))))
    => /\ Get(LastEntrySnapshot, K_last_ts) = lastRequest.now
       /\ Get(LastEntrySnapshot, K_last_ts) # Num(0)

\* C9 amended: metrics.ts left out, or a string Number() makes no finite
\* number of, is stored as the clock of the request, a finite number other
\* than 0.
C9_UnparsableTsIsClock ==
  (LastEntryStored
     /\ (LastEntryTs = Undefined
           \/ (LastEntryTs.t = "string" /\ ~IsFinite(Number(LastEntryTs)))))
    => /\ Get(LastEntrySnapshot, K_last_ts) = lastRequest.now
       /\ IsFinite(Get(LastEntrySnapshot, K_last_ts))
       /\ Get(LastEntrySnapshot, K_last_ts) # Num(0)

\* An entry whose metrics.ts is "abc" was stored after the clock advanced.
C9_Witness ==
  /\ LastEntryStored
  /\ LastEntryTs = Str(<<"a", "b", "c">>)
  /\ LastEntrySnapshot # Undefined
  /\ lastRequest.now # Num(StartTime)

\* C10: a request answered server_error leaves both stores as they were.
C10_FailedRequestChangesNothing ==
  [][(IngestStep /\ response'.status = 500) =>
       (minersStore' = minersStore /\ historyStore' = historyStore)]_vars

\* The one credential the server takes: a key is configured and the header
\* is "Bearer " followed by that key.
HoldsKey(authorization) ==
  /\ API_KEY # EmptyString
  /\ authorization = Str(S_Bearer \o API_KEY.s)

\* A step in which POST /v1/ingest was served, by auth or by the handler.
PostStep ==
  /\ lastRequest'.kind \in {"ingest", "rejected"}
  /\ <<lastRequest, consumed, response>>' # <<lastRequest, consumed, response>>

\* C11: a POST /v1/ingest changes a store only when a key is configured and
\* the header is "Bearer " + key; every other one is answered 401
\* unauthorized and leaves both stores as they were, so that without a key
\* the stores stay empty.
C11_OnlyKeyHolderWrites ==
  /\ [][PostStep =>
         IF HoldsKey(lastRequest'.authorization)
         THEN lastRequest'.kind = "ingest" /\ response' # Unauthorized
         ELSE /\ lastRequest'.kind = "rejected"
              /\ response' = Unauthorized
              /\ minersStore' = minersStore
              /\ historyStore' = historyStore]_vars
  /\ [](API_KEY = EmptyString => (minersStore = NewMap /\ historyStore = NewMap))

\* With a key configured and devices stored, a request of another scheme
\* carrying the key was turned away.
C11_Witness ==
  /\ lastRequest.kind = "rejected"
  /\ API_KEY # EmptyString
  /\ lastRequest.authorization = Str(S_Basic \o API_KEY.s)
  /\ response = Unauthorized
  /\ minersStore # NewMap

\* What the request submitted as miners, and how many entries that is: the
\* elements of an array (a string is iterated character by character, each
\* character an entry without id), none when miners is left out.
Submitted(body) == Get(body, K_miners)
SubmittedCount(body) ==
  CASE Submitted(body).t = "array" -> Len(Submitted(body).a)
    [] Submitted(body).t = "string" -> Len(Submitted(body).s)
    [] OTHER -> 0

\* C12: a request answered 200 is answered {ok: true, count} with count the
\* number of entries submitted, skipped ones included; when miners is left
\* out or empty, the answer is count 0 and both stores are left as they were.
C12_CountIsBatchLength ==
  [][IngestStep =>
       /\ response'.status = 200 =>
            response'.json = Obj(K_ok :> Bool(TRUE)
                                 @@ K_count :> Num(SubmittedCount(lastRequest'.body)))
       /\ Submitted(lastRequest'.body) \in {Undefined, EmptyArray} =>
            /\ response' = [status |-> 200,
                            json |-> Obj(K_ok :> Bool(TRUE) @@ K_count :> Num(0))]
            /\ minersStore' = minersStore
            /\ historyStore' = historyStore]_vars

\* A batch of two entries, one of them skipped, was answered count 2 with
\* one device written.
C12_Witness ==
  /\ IngestAnswered(200)
  /\ Len(LastBatch) = 2
  /\ HasNoId(LastBatch[1])
  /\ Get(response.json, K_count) = Num(2)
  /\ Len(arrivals) = 1
  /\ Len(minersStore) = 1

\* The entries of the listing, when the last request was one.
Listed == Get(response.json, K_miners).a

\* a sorts before b by name and, the names being equal, by id.
BeforeByNameThenId(a, b) ==
  LET byName == localeCompare(Get(a, K_name).s, Get(b, K_name).s)
  IN \/ byName < 0
     \/ byName = 0 /\ localeCompare(Get(a, K_id).s, Get(b, K_id).s) < 0

\* C13: the listing is in ascending order of (name, id): of two devices
\* listed, the one with the lesser name comes first, and of two with equal
\* names the one with the lesser id, whichever was ingested first.
C13_ListedByNameThenId ==
  lastRequest.kind = "list" =>
    \A i, j \in 1..Len(Listed) : i < j => BeforeByNameThenId(Listed[i], Listed[j])

\* C14: the history of every listed device is the last min(N, len) points of
\* its buffer, N the slice length of the variant, in the order of the
\* buffer: none older, none left out.
C14_HistoryIsTrailingSlice ==
  lastRequest.kind = "list" =>
    \A i \in 1..Len(Listed) :
      LET buffer == HistoryOf(Get(Listed[i], K_id))
          served == Get(Listed[i], K_history).a
          k == Min(HistorySlice, Len(buffer))
      IN /\ Len(served) = k
         /\ \A j \in 1..k : served[j] = buffer[Len(buffer) - k + j]

\* A device is listed whose buffer is longer than the slice and ends in two
\* different points.
C14_Witness ==
  /\ lastRequest.kind = "list"
  /\ \E i \in 1..Len(Listed) :
       LET buffer == HistoryOf(Get(Listed[i], K_id))
       IN /\ Len(buffer) > HistorySlice
          /\ buffer[Len(buffer)] # buffer[Len(buffer) - HistorySlice]
          /\ Get(Listed[i], K_history).a # <<>>

\* A step in which GET /v1/miners was served (or nothing happened).
ListStep ==
  /\ lastRequest'.kind = "list"
  /\ clock' = clock

\* C15: serving a list request leaves both stores as they were: the same
\* ids in the same order, the same snapshots, the same history arrays.
C15_ListChangesNoStore ==
  [][ListStep => (minersStore' = minersStore /\ historyStore' = historyStore)]_vars

\* Two devices were listed, one of them with a full buffer, of which the
\* listing holds a part only.
C15_Witness ==
  /\ lastRequest.kind = "list"
  /\ Len(minersStore) = 2
  /\ \E i \in 1..Len(Listed) :
       /\ Len(HistoryOf(Get(Listed[i], K_id))) = HISTORY_MAX_POINTS
       /\ Len(Get(Listed[i], K_history).a) < HISTORY_MAX_POINTS
       /\ Get(Listed[i], K_metrics) = Get(MapGet(minersStore, Get(Listed[i], K_id)), K_metrics)

\* C16: a list request served after another one, with no POST /v1/ingest
\* served between the two, is answered as the first was: the same devices in
\* the same order with the same histories.
C16_ListAnsweredAlike ==
  [][(lastRequest.kind = "list" /\ ListStep) => response' = response]_vars

\* Three devices are listed, two of equal name and one whose name differs
\* from theirs in case only.
C16_Witness ==
  /\ lastRequest.kind = "list"
  /\ Len(Listed) = 3
  /\ \E i, j, k \in 1..3 :
       /\ i # j
       /\ Get(Listed[i], K_name) = Name_n
       /\ Get(Listed[j], K_name) = Name_n
       /\ Get(Listed[k], K_name) = Name_N

\* The id of an entry coerced to a string and trimmed; an entry without id
\* has the empty one.
CoercedId(m) ==
  LET id == Get(m, K_id)
  IN IF id.t \in {"undefined", "null"} THEN <<>> ELSE Trim(String(id).s)

\* The ids a batch is to be stored under, in the order of the batch.
IdsToStore(batch) ==
  LET kept == SelectSeq(batch, LAMBDA m : CoercedId(m) # <<>>)
  IN [i \in 1..Len(kept) |-> Str(CoercedId(kept[i]))]

\* C17: a batch that is answered 200 pushes one history point, and stores a
\* snapshot, for each of its entries whose id, coerced to a string and
\* trimmed, is not empty (0 is "0", false is "false"), under that string,
\* and for no other entry.
C17_StoredUnderCoercedId ==
  [][(IngestStep /\ response'.status = 200
        /\ Get(lastRequest'.body, K_miners).t = "array") =>
       LET ids == IdsToStore(Get(lastRequest'.body, K_miners).a)
       IN /\ Len(arrivals') = Len(arrivals) + Len(ids)
          /\ \A i \in 1..Len(ids) :
               /\ arrivals'[Len(arrivals) + i].id = ids[i]
               /\ Get(MapGet(minersStore', ids[i]), K_id) = ids[i]]_vars

\* C19: the name of every snapshot is a non-empty string, and the snapshot
\* an entry has just stored has the entry's name coerced to a string, or its
\* id when the name is missing, falsy or empty.
C19_NameIsNonEmptyString ==
  /\ \A i \in 1..Len(minersStore) :
       LET name == Get(minersStore[i].value, K_name)
       IN name.t = "string" /\ name.s # <<>>
  /\ (LastEntryStored /\ MapHas(minersStore, Str(CoercedId(LastEntry)))) =>
       LET id == Str(CoercedId(LastEntry))
           name == Get(LastEntry, K_name)
       IN Get(MapGet(minersStore, id), K_name) =
            IF ~Truthy(name) \/ String(name) = EmptyString THEN id ELSE String(name)

\* How long before its rendering the miner of a badge was last seen.
Age(badge) == badge.at.n - badge.last_ts.n

\* C18: a badge is online exactly when the miner was last seen less than
\* 60000 ms before the rendering: online at 59999 ms, stale at 60000 ms and
\* at 60001 ms, in both variants that render badges.
C18_OnlineIffSeenWithinMinute ==
  \A i \in 1..Len(shown) :
    /\ shown[i].isOn <=> Age(shown[i]) < 60000
    /\ Age(shown[i]) = 59999 => shown[i].isOn
    /\ Age(shown[i]) \in {60000, 60001} => ~shown[i].isOn

\* One rendering shows a miner seen 59999 ms before as online and one seen
\* 60000 ms before as stale.
C18_Witness ==
  \E i, j \in 1..Len(shown) :
    /\ Age(shown[i]) = 59999 /\ shown[i].isOn
    /\ Age(shown[j]) = 60000 /\ ~shown[j].isOn

\* The properties of a point, or of a metrics value, other than ts.
WithoutTs(props) == [key \in DOMAIN props \ {K_ts} |-> props[key]]

\* C20: in every listing, the last point of a device's history is of the
\* entry its snapshot is of: its ts is the snapshot's last_ts and its other
\* properties are the snapshot's metrics; and the ids that have a snapshot
\* are the ids that have a non-empty history buffer.
C20_ListShowsWholeEntries ==
  lastRequest.kind = "list" =>
    /\ \A i \in 1..Len(Listed) :
         LET history == Get(Listed[i], K_history).a
             last == history[Len(history)]
         IN /\ history # <<>>
            /\ Get(last, K_ts) = Get(Listed[i], K_last_ts)
            /\ WithoutTs(last.o) = WithoutTs(SpreadProps(Get(Listed[i], K_metrics)))
    /\ MapKeys(minersStore) =
         {historyStore[i].key : i \in {j \in 1..Len(historyStore) :
                                         historyStore[j].value.a # <<>>}}

\* The ids the entries of a batch are for.
IdsOf(batch) == {Str(CoercedId(batch[i])) : i \in 1..Len(batch)}

\* C21: a batch leaves the snapshot and the history buffer of every device
\* it has no entry for as they were, also when it makes the buffer of one of
\* its own devices overflow.
C21_OtherDevicesUntouched ==
  [][(IngestStep /\ Get(lastRequest'.body, K_miners).t = "array") =>
       \A id \in (MapKeys(minersStore) \cup MapKeys(historyStore))
                   \ IdsOf(Get(lastRequest'.body, K_miners).a) :
         /\ MapGet(minersStore', id) = MapGet(minersStore, id)
         /\ MapGet(historyStore', id) = MapGet(historyStore, id)]_vars

\* A batch for device A alone pushed A's buffer over the cap while device B
\* had a point stored.
C21_Witness ==
  /\ IngestAnswered(200)
  /\ LastBatch # <<>>
  /\ IdsOf(LastBatch) = {Id_A}
  /\ Len(ArrivalsOf(Id_A)) > HISTORY_MAX_POINTS
  /\ HistoryOf(Id_B) # <<>>
  /\ MapHas(minersStore, Id_B)

\* What a request of the entry m alone stores in empty stores: the point it
\* pushes and the snapshot it leaves.
Alone(m, now) == IngestHandler(NewMap, NewMap, Obj(K_miners :> Arr(<<m>>)), now)
PointOf(m, now) == Alone(m, now).pushed[1].point
SnapshotOf(m, now) == Alone(m, now).miners[1].value

\* The entries of a batch that are not skipped, and those of them for id.
Kept(batch) == SelectSeq(batch, LAMBDA m : CoercedId(m) # <<>>)
KeptFor(batch, id) == SelectSeq(batch, LAMBDA m : Str(CoercedId(m)) = id)

\* C22: a batch answered 200 pushes one point for each of its entries that
\* is not skipped, in the order of the batch: the buffer of each of its ids
\* is the old one followed by the points of the entries for that id in that
\* order (cut to the cap), and the snapshot of the id is the one of the last
\* of these entries.
C22_AppliedInBatchOrder ==
  [][(IngestStep /\ response'.status = 200
        /\ Get(lastRequest'.body, K_miners).t = "array") =>
       LET batch == Get(lastRequest'.body, K_miners).a
           now == lastRequest'.now
           kept == Kept(batch)
       IN /\ arrivals' = arrivals \o
               [i \in 1..Len(kept) |->
                  [id |-> Str(CoercedId(kept[i])), point |-> PointOf(kept[i], now)]]
          /\ \A id \in IdsOf(kept) :
               LET mine == KeptFor(batch, id)
                   points == [i \in 1..Len(mine) |-> PointOf(mine[i], now)]
               IN /\ MapGet(historyStore', id) =
                       Arr(SliceLast(HistoryOf(id) \o points, HISTORY_MAX_POINTS))
                  /\ MapGet(minersStore', id) = SnapshotOf(mine[Len(mine)], now)]_vars

\* A batch held two different entries for one id around an entry that was
\* skipped, and the snapshot is the one of the later entry.
C22_Witness ==
  /\ IngestAnswered(200)
  /\ Len(LastBatch) = 3
  /\ CoercedId(LastBatch[1]) = CoercedId(LastBatch[3])
  /\ CoercedId(LastBatch[2]) = <<>>
  /\ CoercedId(LastBatch[3]) # <<>>
  /\ PointOf(LastBatch[1], lastRequest.now) # PointOf(LastBatch[3], lastRequest.now)
  /\ MapGet(minersStore, Str(CoercedId(LastBatch[3]))) =
       SnapshotOf(LastBatch[3], lastRequest.now)
  /\ Len(arrivals) >= 2

\* The timestamp an entry resolves to: metrics.ts coerced to a number when
\* it is there and the number is finite, the clock of the request otherwise.
ResolvedTs(m, now) ==
  LET ts == Get(Get(m, K_metrics), K_ts)
  IN IF ts.t \notin {"undefined", "null"} /\ IsFinite(Number(ts)) THEN Number(ts)
     ELSE now

\* C23: when entries arrive for a device that is stored already, its last_ts
\* becomes the resolved timestamp of the last of them, smaller than the one
\* before or not, and the point of that entry, with that timestamp, is the
\* last of its history.
C23_LastTsIsOfLatestArrival ==
  [][(IngestStep /\ response'.status = 200
        /\ Get(lastRequest'.body, K_miners).t = "array") =>
       LET batch == Get(lastRequest'.body, K_miners).a
           now == lastRequest'.now
       IN \A id \in IdsOf(Kept(batch)) \cap MapKeys(minersStore) :
            LET mine == KeptFor(batch, id)
                latest == mine[Len(mine)]
                history == MapGet(historyStore', id).a
                point == history[Len(history)]
            IN /\ Get(MapGet(minersStore', id), K_last_ts) = ResolvedTs(latest, now)
               /\ Get(point, K_ts) = ResolvedTs(latest, now)
               /\ WithoutTs(point.o) = WithoutTs(SpreadProps(Get(latest, K_metrics)))]_vars

====
